---- MODULE Spec2Model ----
(***************************************************************************)
(* Model of the daily electricity price trend report                       *)
(* (src/电价绘制图/电价趋势图绘制.py and its caller 快速预览.py).              *)
(*                                                                         *)
(* Prices are held in hundredths of a yuan (546.51 is 54651), so that the  *)
(* arithmetic of the statistics is exact integer arithmetic.  A float that *)
(* may be NaN or infinite is a record tagged "nan", "inf", "-inf" or       *)
(* "fin"; a finite one carries the exact quotient num/den.                 *)
(* Timestamps are the integer yyyymmdd, whose order is calendar order.     *)
(***************************************************************************)
EXTENDS Integers, Sequences, FiniteSets, TLC

VARIABLES entry, fileState, branch, df, save_path, show_labels, pc,
          df_clean, stats, fig, ret, exc, saved, out

vars == <<entry, fileState, branch, df, save_path, show_labels, pc,
          df_clean, stats, fig, ret, exc, saved, out>>

\* Largest number of rows of an enumerated input table.
MaxRows == 2

\* Largest number of rows of the long tables whose labels are thinned out.
MaxLongRows == 37

-----------------------------------------------------------------------------
(* Cells of the input table *)

\* A missing cell (None / NaN / empty spreadsheet cell).
NullCell == [k |-> "null", v |-> 0]
\* A numeric price cell, in hundredths.
Num(n) == [k |-> "num", v |-> n]
\* A price cell holding text that is not a number.
StrCell == [k |-> "str", v |-> 0]
\* A date cell as written in the sheet: year, month, day.
DateCell(y, m, d) == [k |-> "ymd", v |-> (y * 10000) + (m * 100) + d]

IsNull(c) == c.k = "null"

DaysInMonth(y, m) ==
    IF m \in {4, 6, 9, 11} THEN 30
    ELSE IF m = 2
         THEN (IF (y % 4 = 0 /\ y % 100 # 0) \/ y % 400 = 0 THEN 29 ELSE 28)
         ELSE 31

\* pd.to_datetime of one cell: NaT for a missing cell, the timestamp of a
\* calendar date, and a parse error for anything that is not a date.
Parseable(c) ==
    \/ c.k = "null"
    \/ /\ c.k = "ymd"
       /\ LET y == c.v \div 10000
              m == (c.v \div 100) % 100
              d == c.v % 100
          IN  /\ m \in 1..12
              /\ d \in 1..DaysInMonth(y, m)

NaT == [k |-> "nat", v |-> 0]
Timestamp(t) == [k |-> "ts", v |-> t]

to_datetime(c) == IF c.k = "null" THEN NaT ELSE Timestamp(c.v)

-----------------------------------------------------------------------------
(* Input tables *)

DateCells == {DateCell(2025, 6, 29), DateCell(2025, 6, 30),
              DateCell(2025, 6, 31), NullCell}
\* Prices may be negative.
PriceCells == {Num(-1), Num(1), NullCell, StrCell}

RowCells == [date : DateCells, dayahead : PriceCells, realtime : PriceCells]

\* A table read from a sheet or handed to the function: its number of
\* columns and, when it has the three columns, its rows.
ThreeColumnTables ==
    UNION {[ncols : {3}, rows : [1..n -> RowCells]] : n \in 0..MaxRows}
OtherWidthTables == {[ncols |-> w, rows |-> << >>] : w \in {0, 2, 4}}

\* The divisor of the label interval, line 387.
LabelDivisor == 18

\* The date cell of the i-th day from 2025-06-29 on (i up to 64).
DayCell(i) ==
    IF i <= 2 THEN DateCell(2025, 6, 28 + i)
    ELSE IF i <= 33 THEN DateCell(2025, 7, i - 2)
    ELSE DateCell(2025, 8, i - 33)

\* A complete table of n consecutive days, long enough for the label
\* interval of line 387 to exceed 1.
LongTable(n) ==
    [ncols |-> 3,
     rows |-> [i \in 1..n |->
                 [date |-> DayCell(i),
                  dayahead |-> Num(30000 + i),
                  realtime |-> Num(30000 + (3 * i))]]]

\* Row counts with a label interval of 2, and the first with one of 3.
LongRowCounts ==
    ((2 * LabelDivisor)..MaxLongRows) \cup {3 * LabelDivisor}

LongTables == {LongTable(n) : n \in LongRowCounts}

Tables == ThreeColumnTables \cup OtherWidthTables \cup LongTables

NoTable == [ncols |-> 0, rows |-> << >>]

\* The literal arrays of create_demo_data.
DemoDates ==
    <<DateCell(2025, 6, 29), DateCell(2025, 6, 30), DateCell(2025, 7, 1),
      DateCell(2025, 7, 2), DateCell(2025, 7, 3), DateCell(2025, 7, 4),
      DateCell(2025, 7, 5), DateCell(2025, 7, 6), DateCell(2025, 7, 7),
      DateCell(2025, 7, 8), DateCell(2025, 7, 9), DateCell(2025, 7, 10),
      DateCell(2025, 7, 11), DateCell(2025, 7, 12), DateCell(2025, 7, 13),
      DateCell(2025, 7, 14), DateCell(2025, 7, 15), DateCell(2025, 7, 16),
      DateCell(2025, 7, 17), DateCell(2025, 7, 18), DateCell(2025, 7, 19),
      DateCell(2025, 7, 20), DateCell(2025, 7, 21), DateCell(2025, 7, 22),
      DateCell(2025, 7, 23), DateCell(2025, 7, 24), DateCell(2025, 7, 25),
      DateCell(2025, 7, 26), DateCell(2025, 7, 27), DateCell(2025, 7, 28),
      DateCell(2025, 7, 29), DateCell(2025, 7, 30), DateCell(2025, 7, 31),
      DateCell(2025, 8, 1), DateCell(2025, 8, 2)>>

DemoDayAhead ==
    <<30628, 42716, 29883, 27359, 26634, 31277, 34152, 37537,
      34633, 31002, 33256, 37476, 42181, 35255, 41163, 36521,
      38149, 36048, 41715, 45451, 50747, 54651, 27556, 28171,
      41294, 33947, 37421, 35771, 33531, 32778, 30918, 23001,
      32655, 32012, 33837>>

DemoRealTime ==
    <<55050, 44652, 37022, 35128, 29834, 36567, 30018, 45116,
      35845, 36155, 35777, 40807, 42415, 37203, 47577, 46873,
      42764, 44274, 42810, 42708, 43781, 50791, 34033, 33627,
      33239, 35534, 28034, 32635, 29643, 27907, 25378, 20947,
      29827, 34540, 26936>>

\* The demo frame with the NaN landing on its last row, dated 2025-08-02.
create_demo_data_with_nan ==
    [ncols |-> 3,
     rows |-> [i \in 1..Len(DemoDates) |->
                 [date |-> DemoDates[i],
                  dayahead |-> Num(DemoDayAhead[i]),
                  realtime |-> IF DemoDates[i] = DateCell(2025, 8, 2)
                               THEN NullCell ELSE Num(DemoRealTime[i])]]]

\* create_demo_data: the frame of the three arrays; the assignment of NaN
\* to the rows dated 2025-08-03 selects no row of it.
create_demo_data ==
    LET frame == [i \in 1..Len(DemoDates) |->
                    [date |-> DemoDates[i],
                     dayahead |-> Num(DemoDayAhead[i]),
                     realtime |-> Num(DemoRealTime[i])]]
    IN  [ncols |-> 3,
         rows |-> [i \in 1..Len(frame) |->
                     IF frame[i].date = DateCell(2025, 8, 3)
                     THEN [frame[i] EXCEPT !.realtime = NullCell]
                     ELSE frame[i]]]

-----------------------------------------------------------------------------
(* Cleaning: lines 90-93 of plot_daily_price_trend *)

\* df_clean.columns = [...] needs exactly three columns.
RenameFails(t) == t.ncols # 3

\* pd.to_datetime(..., errors='coerce') never fails.
ParseNeverFails(t) == FALSE

\* pd.to_datetime of the date column fails on the first cell it cannot parse.
ParseFails(t) == \E i \in 1..Len(t.rows) : ~Parseable(t.rows[i].date)

\* The frame after the date column is parsed.  src is the row's position in
\* the input table (the index dropna and sort_values carry along, which
\* reset_index(drop=True) then discards): it is kept here only so that rows
\* can be told apart and traced back.
ParsedFrame(t) ==
    [i \in 1..Len(t.rows) |->
        [date |-> to_datetime(t.rows[i].date),
         dayahead |-> t.rows[i].dayahead,
         realtime |-> t.rows[i].realtime,
         src |-> i]]

\* dropna(subset=[the two price columns]): the date cell is not looked at.
HasNaInPrices(r) == IsNull(r.dayahead) \/ IsNull(r.realtime)

\* dropna(subset=['日期']): the price cells are not looked at.
HasNaInDate(r) == r.date.k = "nat"

\* dropna() with no subset: a row goes when any of its cells is missing.
HasNa(r) == r.date.k = "nat" \/ IsNull(r.dayahead) \/ IsNull(r.realtime)

dropna(frame) == SelectSeq(frame, LAMBDA r : ~HasNa(r))

Range(s) == {s[i] : i \in 1..Len(s)}

RECURSIVE Orderings(_)
\* Every arrangement of a set of rows.
Orderings(S) ==
    IF S = {} THEN {<< >>}
    ELSE UNION {{<<r>> \o p : p \in Orderings(S \ {r})} : r \in S}

RECURSIVE SortedArrangements(_)
SortedArrangements(S) ==
    IF S = {} THEN {<< >>}
    ELSE LET first == CHOOSE r \in S : \A q \in S : r.date.v <= q.date.v
             ties == {r \in S : r.date.v = first.date.v}
         IN  UNION {{g \o rest : rest \in SortedArrangements(S \ ties)}
                      : g \in Orderings(ties)}

\* The frame left in input order.
sort_values_skipped(frame) == {frame}

\* sort_values('日期') with the default kind='quicksort', which is not a
\* stable sort: the result is ascending by date, and rows of equal date may
\* come out in any order.  The set of results the call can produce.
sort_values(frame) == SortedArrangements(Range(frame))

\* The cleaned frames line 93 can produce from a table.
CleanedFrames(t) == sort_values(dropna(ParsedFrame(t)))

-----------------------------------------------------------------------------
(* Floats *)

NaN == [k |-> "nan", num |-> 0, den |-> 1]
PosInf == [k |-> "inf", num |-> 0, den |-> 1]
NegInf == [k |-> "-inf", num |-> 0, den |-> 1]
Abs(n) == IF n < 0 THEN 0 - n ELSE n

RECURSIVE GCD(_, _)
GCD(a, b) == IF b = 0 THEN a ELSE GCD(b, a % b)

\* The finite float n/d, kept in lowest terms with a positive denominator.
Fin(n, d) ==
    LET g == GCD(Abs(n), Abs(d))
    IN  IF d < 0 THEN [k |-> "fin", num |-> (0 - n) \div g, den |-> (0 - d) \div g]
        ELSE [k |-> "fin", num |-> n \div g, den |-> d \div g]
\* A finite float of known sign whose magnitude is not carried (a standard
\* deviation and what is computed from it).
Positive == [k |-> "pos", num |-> 1, den |-> 1]
Negative == [k |-> "neg", num |-> 0 - 1, den |-> 1]
\* A finite float in [-1, 1] whose value is not carried (a correlation).
Coefficient == [k |-> "coef", num |-> 0, den |-> 1]

\* np.isfinite
isfinite(x) == x.k \in {"fin", "pos", "neg", "coef"}

\* Python's truth value of a float: false for zero only (NaN is true).
Truthy(x) == ~(x.k = "fin" /\ x.num = 0)

Sign(x) == IF x.k \in {"inf", "pos"} THEN 1
           ELSE IF x.k \in {"-inf", "neg"} THEN 0 - 1
           ELSE IF x.k = "nan" THEN 0
           ELSE IF x.num > 0 THEN 1 ELSE IF x.num < 0 THEN 0 - 1 ELSE 0

\* x / y on numpy float64 values: a zero divisor gives NaN or an infinity
\* (a warning, not an exception).
Divide(x, y) ==
    IF x.k = "nan" \/ y.k = "nan" THEN NaN
    ELSE IF y.k = "fin" /\ y.num = 0
         THEN (IF Sign(x) = 0 THEN NaN
               ELSE IF Sign(x) > 0 THEN PosInf ELSE NegInf)
    ELSE IF x.k = "fin" /\ y.k = "fin"
         THEN LET g == GCD(x.den, y.den)
              IN  Fin(x.num * (y.den \div g), (x.den \div g) * y.num)
    ELSE IF Sign(x) = 0 THEN Fin(0, 1)
    ELSE IF Sign(x) * Sign(y) > 0 THEN Positive ELSE Negative

\* x * 100
Times100(x) == IF x.k = "fin" THEN Fin(x.num * 100, x.den) ELSE x

-----------------------------------------------------------------------------
(* Formatting: _format_percent and _format_currency, lines 45-56 *)

TwoDigits(c) == IF c < 10 THEN "0" \o ToString(c) ELSE ToString(c)

\* f"{value:.2f}": a finite float rounded to hundredths, ties to even; NaN
\* and the infinities print as their names.
Fixed2(x) ==
    IF x.k \in {"nan", "inf", "-inf"} THEN x.k
    ELSE IF x.k = "pos" THEN "#.##"
    ELSE IF x.k = "neg" THEN "-#.##"
    ELSE IF x.k = "coef" THEN "~#.##"
    ELSE LET a == IF x.num < 0 THEN 0 - x.num ELSE x.num
             q == (a * 100) \div x.den
             r == (a * 100) % x.den
             h == IF 2 * r > x.den \/ (2 * r = x.den /\ q % 2 = 1)
                  THEN q + 1 ELSE q
         IN  (IF x.num < 0 THEN "-" ELSE "")
               \o ToString(h \div 100) \o "." \o TwoDigits(h % 100)

\* The percentage formatted without the validity check.
_format_percent_unchecked(value) == Fixed2(value) \o "%"

_format_percent(value) ==
    IF ~isfinite(value) THEN "--" ELSE Fixed2(value) \o "%"

_format_currency(value) ==
    IF ~isfinite(value) THEN "--" ELSE Fixed2(value)

-----------------------------------------------------------------------------
(* Statistics: lines 99-124 *)

\* A price column of the cleaned frame holds text: the subtraction of line 99
\* raises TypeError.
SubtractFails(frame) ==
    \E i \in 1..Len(frame) :
        frame[i].dayahead.k = "str" \/ frame[i].realtime.k = "str"

\* The spread taken before the sort and attached by position: row i of the
\* sorted frame gets the spread of the i-th row in input order.
WithSpreadByPosition(frame) ==
    [i \in 1..Len(frame) |->
        LET other == CHOOSE r \in Range(frame) :
                        Cardinality({q \in Range(frame) : q.src <= r.src}) = i
        IN  [date |-> frame[i].date,
             dayahead |-> frame[i].dayahead,
             realtime |-> frame[i].realtime,
             src |-> frame[i].src,
             spread |-> other.realtime.v - other.dayahead.v]]

\* df_clean['价差'] = df_clean['实时均价'] - df_clean['日前均价']
WithSpread(frame) ==
    [i \in 1..Len(frame) |->
        [date |-> frame[i].date,
         dayahead |-> frame[i].dayahead,
         realtime |-> frame[i].realtime,
         src |-> frame[i].src,
         spread |-> frame[i].realtime.v - frame[i].dayahead.v]]

DayAheadColumn(frame) == [i \in 1..Len(frame) |-> frame[i].dayahead.v]
RealTimeColumn(frame) == [i \in 1..Len(frame) |-> frame[i].realtime.v]
SpreadColumn(frame) == [i \in 1..Len(frame) |-> frame[i].spread]

Min(S) == CHOOSE x \in S : \A y \in S : x <= y
Max(S) == CHOOSE x \in S : \A y \in S : x >= y

RECURSIVE Sum(_)
Sum(col) == IF col = << >> THEN 0 ELSE Head(col) + Sum(Tail(col))

Constant(col) == \A i \in 1..Len(col) : col[i] = col[1]

\* Series.mean() of a column in hundredths, in yuan.
mean(col) == Fin(Sum(col), 100 * Len(col))

\* Series.std(), the sample (N-1) standard deviation: NaN for one row.
std(col) == IF Len(col) < 2 THEN NaN
            ELSE IF Constant(col) THEN Fin(0, 1) ELSE Positive

\* Series.corr(): NaN unless both columns vary.
corr(a, b) == IF Len(a) < 2 \/ Constant(a) \/ Constant(b) THEN NaN
              ELSE Coefficient

\* Series.idxmax() / idxmin(): the label (0-based after reset_index) of the
\* first row holding the extreme value.
\* The label of the last row holding the maximum.
idxmax_last(col) ==
    (CHOOSE i \in 1..Len(col) :
        /\ \A j \in 1..Len(col) : col[j] <= col[i]
        /\ \A j \in (i + 1)..Len(col) : col[j] < col[i]) - 1

idxmax(col) ==
    (CHOOSE i \in 1..Len(col) :
        /\ \A j \in 1..Len(col) : col[j] <= col[i]
        /\ \A j \in 1..(i - 1) : col[j] < col[i]) - 1

idxmin(col) ==
    (CHOOSE i \in 1..Len(col) :
        /\ \A j \in 1..Len(col) : col[j] >= col[i]
        /\ \A j \in 1..(i - 1) : col[j] > col[i]) - 1

\* Lines 115-117: the guarded quotients.
GuardedPercent(numer, denom) ==
    IF Truthy(denom) THEN Times100(Divide(numer, denom)) ELSE NaN

NoStats == [computed |-> FALSE]

ComputeStats(frame) ==
    LET da == DayAheadColumn(frame)
        rt == RealTimeColumn(frame)
        sp == SpreadColumn(frame)
    IN  [computed |-> TRUE,
         start_date |-> Min({frame[i].date.v : i \in 1..Len(frame)}),
         end_date |-> Max({frame[i].date.v : i \in 1..Len(frame)}),
         dayahead_mean |-> mean(da),
         realtime_mean |-> mean(rt),
         price_diff_mean |-> mean(sp),
         dayahead_std |-> std(da),
         realtime_std |-> std(rt),
         spread_std |-> std(sp),
         price_correlation |-> corr(da, rt),
         premium_rate |-> GuardedPercent(mean(sp), mean(da)),
         realtime_volatility |-> GuardedPercent(std(rt), mean(rt)),
         dayahead_volatility |-> GuardedPercent(std(da), mean(da)),
         dayahead_max_idx |-> idxmax(da),
         dayahead_min_idx |-> idxmin(da),
         realtime_max_idx |-> idxmax(rt),
         realtime_min_idx |-> idxmin(rt),
         diff_max_idx |-> idxmax(sp),
         diff_min_idx |-> idxmin(sp)]

-----------------------------------------------------------------------------
(* Layout: lines 126-569 *)

\* df_clean.loc[idx, column] for a 0-based label.
Loc(frame, idx) == frame[idx + 1]

Yuan(hundredths) == Fin(hundredths, 100)

\* Lines 155-176: the four KPI cards as (value, subtitle) texts.
metric_cards(st) ==
    <<[value |-> _format_currency(st.dayahead_mean),
       subtitle |-> _format_percent(st.dayahead_volatility)],
      [value |-> _format_currency(st.realtime_mean),
       subtitle |-> _format_percent(st.realtime_volatility)],
      [value |-> _format_currency(st.price_diff_mean),
       subtitle |-> _format_currency(st.spread_std)],
      [value |-> _format_currency(st.price_correlation),
       subtitle |-> _format_percent(st.premium_rate)]>>

\* One highlighted extremum: where it sits and the value its annotation shows.
Highlight(frame, idx, v) ==
    [idx |-> idx, date |-> Loc(frame, idx).date.v, text |-> Fixed2(Yuan(v))]

\* Lines 313-383 and 465-504: the six annotated extrema.
highlights(frame, st) ==
    [dayahead_max |-> Highlight(frame, st.dayahead_max_idx,
                                Loc(frame, st.dayahead_max_idx).dayahead.v),
     realtime_max |-> Highlight(frame, st.realtime_max_idx,
                                Loc(frame, st.realtime_max_idx).realtime.v),
     dayahead_min |-> Highlight(frame, st.dayahead_min_idx,
                                Loc(frame, st.dayahead_min_idx).dayahead.v),
     realtime_min |-> Highlight(frame, st.realtime_min_idx,
                                Loc(frame, st.realtime_min_idx).realtime.v),
     diff_max |-> Highlight(frame, st.diff_max_idx,
                            Loc(frame, st.diff_max_idx).spread),
     diff_min |-> Highlight(frame, st.diff_min_idx,
                            Loc(frame, st.diff_min_idx).spread)]

label_interval(frame) ==
    IF Len(frame) \div LabelDivisor > 1 THEN Len(frame) \div LabelDivisor ELSE 1

\* Line 389 without its second test: the last row is labelled only when
\* its position is a multiple of the interval.
LabelledRowsByIntervalOnly(frame) ==
    {i \in 0..(Len(frame) - 1) : i % label_interval(frame) = 0}

\* Line 389: the 0-based labels of the rows that get data labels.
LabelledRows(frame) ==
    {i \in 0..(Len(frame) - 1) :
        i % label_interval(frame) = 0 \/ i = Len(frame) - 1}

\* Lines 385-413: the data labels, two per labelled row.
texts(frame, labels) ==
    IF labels
    THEN {[row |-> i, series |-> s,
           text |-> " " \o Fixed2(Yuan(IF s = "dayahead"
                                       THEN Loc(frame, i).dayahead.v
                                       ELSE Loc(frame, i).realtime.v))]
            : i \in LabelledRows(frame), s \in {"dayahead", "realtime"}}
    ELSE {}

NoFigure == [made |-> FALSE]

\* The figure and its axes as the function hands them back.
ComposeFigure(frame, st, labels) ==
    [made |-> TRUE,
     rows |-> Len(frame),
     cards |-> metric_cards(st),
     highlights |-> highlights(frame, st),
     texts |-> texts(frame, labels),
     insight_premium |-> _format_percent(st.premium_rate)]

-----------------------------------------------------------------------------
(* The program: the main script, the quick preview script, and a direct call
   of plot_daily_price_trend *)

Entries == {"main", "preview", "call"}
FileStates == {"present", "absent", "corrupt"}
\* save_path: None, or the path of the image to write.
SavePaths == {"None", "png"}

Say(msgs) == out' = out \o msgs

Init ==
    /\ entry \in Entries
    /\ fileState \in (IF entry = "main" THEN FileStates ELSE {"unused"})
    /\ branch = "none"
    /\ df = NoTable
    /\ save_path = "None"
    /\ show_labels = TRUE
    /\ pc = "start"
    /\ df_clean = << >>
    /\ stats = NoStats
    /\ fig = NoFigure
    /\ ret = "pending"
    /\ exc = "none"
    /\ saved = FALSE
    /\ out = << >>

\* __main__, lines 622-638: read the sheet and call the function on it.
MainReadExcel ==
    /\ pc = "start" /\ entry = "main"
    /\ \/ /\ fileState = "present"
          /\ \E t \in Tables : df' = t
          /\ branch' = "real"
          /\ save_path' = "png"
          /\ Say(<<"begin", "loading", "loaded">>)
          /\ pc' = "clean"
          /\ exc' = exc
       \/ /\ fileState = "absent"
          /\ exc' = "FileNotFoundError"
          /\ Say(<<"begin", "loading">>)
          /\ pc' = "raised"
          /\ UNCHANGED <<df, branch, save_path>>
       \/ /\ fileState = "corrupt"
          /\ exc' = "Exception"
          /\ Say(<<"begin", "loading">>)
          /\ pc' = "raised"
          /\ UNCHANGED <<df, branch, save_path>>
    /\ UNCHANGED <<entry, fileState, show_labels, df_clean, stats, fig, ret, saved>>

\* The missing file handled like any other failure: report and stop.
MainExceptFileNotFoundAborts ==
    /\ pc = "raised" /\ entry = "main" /\ branch = "none"
    /\ exc = "FileNotFoundError"
    /\ exc' = "none"
    /\ Say(<<"fatal">>)
    /\ pc' = "done"
    /\ UNCHANGED <<entry, fileState, branch, df, save_path, show_labels,
                   df_clean, stats, fig, ret, saved>>

\* __main__, lines 644-649: the file is missing, plot the demo data instead.
MainExceptFileNotFound ==
    /\ pc = "raised" /\ entry = "main" /\ branch = "none"
    /\ exc = "FileNotFoundError"
    /\ exc' = "none"
    /\ Say(<<"warn_missing", "use_demo">>)
    /\ df' = create_demo_data
    /\ branch' = "demo"
    /\ save_path' = "png"
    /\ pc' = "clean"
    /\ UNCHANGED <<entry, fileState, show_labels, df_clean, stats, fig, ret, saved>>

\* __main__, lines 655-656: any other exception of the try block.
MainExceptException ==
    /\ pc = "raised" /\ entry = "main" /\ branch \in {"none", "real"}
    /\ exc \notin {"none", "FileNotFoundError"}
    /\ exc' = "none"
    /\ Say(<<"fatal">>)
    /\ pc' = "done"
    /\ UNCHANGED <<entry, fileState, branch, df, save_path, show_labels,
                   df_clean, stats, fig, ret, saved>>

\* 快速预览.py, lines 16-36: call the function on the demo data.
PreviewStart ==
    /\ pc = "start" /\ entry = "preview"
    /\ Say(<<"preview">>)
    /\ df' = create_demo_data
    /\ save_path' = "png"
    /\ show_labels' = TRUE
    /\ pc' = "clean"
    /\ UNCHANGED <<entry, fileState, branch, df_clean, stats, fig, ret, exc, saved>>

\* A caller hands plot_daily_price_trend a table and its options.
Call ==
    /\ pc = "start" /\ entry = "call"
    /\ \E t \in Tables : df' = t
    /\ \E p \in SavePaths : save_path' = p
    /\ \E l \in BOOLEAN : show_labels' = l
    /\ pc' = "clean"
    /\ UNCHANGED <<entry, fileState, branch, df_clean, stats, fig, ret, exc, saved, out>>

\* Without the check of line 95 the statistics run on no rows, and idxmax of
\* an empty column raises ValueError.
EmptyUnchecked ==
    /\ exc' = "ValueError"
    /\ pc' = "raised"
    /\ UNCHANGED <<ret, out>>

\* Lines 95-97: nothing is left, say so and return (None, None).
EmptyResult ==
    /\ Say(<<"empty">>)
    /\ ret' = "None,None"
    /\ pc' = "returned"
    /\ exc' = exc

\* Lines 90-97: rename, parse, drop, sort, and the empty result.
Clean ==
    /\ pc = "clean"
    /\ IF RenameFails(df) \/ ParseFails(df)
       THEN /\ exc' = "ValueError"
            /\ pc' = "raised"
            /\ UNCHANGED <<df_clean, ret, out>>
       ELSE /\ \E frame \in CleanedFrames(df) :
                 /\ df_clean' = frame
                 /\ IF frame = << >>
                    THEN EmptyResult
                    ELSE /\ pc' = "stats"
                         /\ UNCHANGED <<ret, out, exc>>
    /\ UNCHANGED <<entry, fileState, branch, df, save_path, show_labels,
                   stats, fig, saved>>

\* Lines 99-124: the spread column and the statistics.
Compute ==
    /\ pc = "stats"
    /\ IF SubtractFails(df_clean)
       THEN /\ exc' = "TypeError"
            /\ pc' = "raised"
            /\ UNCHANGED <<df_clean, stats>>
       ELSE /\ df_clean' = WithSpread(df_clean)
            /\ stats' = ComputeStats(WithSpread(df_clean))
            /\ pc' = "layout"
            /\ exc' = exc
    /\ UNCHANGED <<entry, fileState, branch, df, save_path, show_labels,
                   fig, ret, saved, out>>

\* Lines 126-569: the figure and its panels.
Layout ==
    /\ pc = "layout"
    /\ fig' = ComposeFigure(df_clean, stats, show_labels)
    /\ pc' = "save"
    /\ UNCHANGED <<entry, fileState, branch, df, save_path, show_labels,
                   df_clean, stats, ret, exc, saved, out>>

\* Lines 574-580: savefig wrote the file.
SaveSucceeds ==
    /\ saved' = TRUE
    /\ Say(<<"saved">>)
    /\ ret' = "fig,axes"
    /\ pc' = "returned"
    /\ exc' = exc

\* savefig raised and nothing catches it.
SaveFailsUncaught ==
    /\ saved' = FALSE
    /\ exc' = "OSError"
    /\ pc' = "raised"
    /\ UNCHANGED <<ret, out>>

\* Lines 581-582: savefig raised; the handler prints and falls through.
SaveFails ==
    /\ saved' = FALSE
    /\ Say(<<"save_error">>)
    /\ ret' = "fig,axes"
    /\ pc' = "returned"
    /\ exc' = exc

\* Lines 571-584: save when a path is given, and return.
Save ==
    /\ pc = "save"
    /\ IF save_path = "None"
       THEN /\ ret' = "fig,axes"
            /\ pc' = "returned"
            /\ UNCHANGED <<saved, out, exc>>
       ELSE SaveSucceeds \/ SaveFails
    /\ UNCHANGED <<entry, fileState, branch, df, save_path, show_labels,
                   df_clean, stats, fig>>

\* __main__, lines 640-642 and 651-653: show the figure when there is one.
MainAfterPlot ==
    /\ pc = "returned" /\ entry = "main"
    /\ IF ret = "fig,axes"
       THEN Say(<<"show", IF branch = "demo" THEN "done_demo" ELSE "done_real">>)
       ELSE UNCHANGED out
    /\ pc' = "done"
    /\ UNCHANGED <<entry, fileState, branch, df, save_path, show_labels,
                   df_clean, stats, fig, ret, exc, saved>>

\* 快速预览.py, lines 38-77: report success, or exit with status 1.
PreviewAfterPlot ==
    /\ pc = "returned" /\ entry = "preview"
    /\ IF ret = "fig,axes"
       THEN Say(<<"preview_ok">>)
       ELSE Say(<<"preview_failed", "exit_1">>)
    /\ pc' = "done"
    /\ UNCHANGED <<entry, fileState, branch, df, save_path, show_labels,
                   df_clean, stats, fig, ret, exc, saved>>

\* The direct caller has the result.
CallReturn ==
    /\ pc = "returned" /\ entry = "call"
    /\ pc' = "done"
    /\ UNCHANGED <<entry, fileState, branch, df, save_path, show_labels,
                   df_clean, stats, fig, ret, exc, saved, out>>

\* An exception nobody handles reaches the caller of the function.
Propagate ==
    /\ pc = "raised"
    /\ ~(entry = "main" /\ branch \in {"none", "real"})
    /\ pc' = "done"
    /\ UNCHANGED <<entry, fileState, branch, df, save_path, show_labels,
                   df_clean, stats, fig, ret, exc, saved, out>>

Next ==
    \/ MainReadExcel
    \/ MainExceptFileNotFound
    \/ MainExceptException
    \/ PreviewStart
    \/ Call
    \/ Clean
    \/ Compute
    \/ Layout
    \/ Save
    \/ MainAfterPlot
    \/ PreviewAfterPlot
    \/ CallReturn
    \/ Propagate

Spec == Init /\ [][Next]_vars

-----------------------------------------------------------------------------
(* Properties of the cleaning step *)

\* Line 93 has run and left the cleaned frame in df_clean.
CleaningDone == pc \in {"stats", "layout", "save", "returned"}

\* How many rows of the cleaned frame come from row i of the input table.
Copies(i) == Cardinality({j \in 1..Len(df_clean) : df_clean[j].src = i})

PriceMissing(row) == row.dayahead.k = "null" \/ row.realtime.k = "null"
DateMissing(row) == row.date.k = "null"

\* The cleaned rows carry the cells of the input rows they come from.
RowsUnaltered ==
    \A j \in 1..Len(df_clean) :
        LET row == df.rows[df_clean[j].src]
        IN  /\ df_clean[j].dayahead = row.dayahead
            /\ df_clean[j].realtime = row.realtime
            /\ df_clean[j].date.v = row.date.v

\* C1 as stated: a row of the input table is absent from the cleaned series
\* if and only if one of its two prices is missing, and every other row,
\* whatever its date cell, is there exactly once.
C1_DroppedIffPriceMissing ==
    CleaningDone =>
        \A i \in 1..Len(df.rows) :
            Copies(i) = (IF PriceMissing(df.rows[i]) THEN 0 ELSE 1)

\* C1 amended: a row of the input table is absent from the cleaned series if
\* and only if its date cell or one of its two prices is missing; every
\* other row is there exactly once, with its cells unaltered.
C1_DroppedIffAnyCellMissing ==
    CleaningDone =>
        /\ \A i \in 1..Len(df.rows) :
              Copies(i) = (IF DateMissing(df.rows[i]) \/ PriceMissing(df.rows[i])
                           THEN 0 ELSE 1)
        /\ RowsUnaltered

\* Cleaning kept one row and dropped another whose only missing cell was its
\* date.
C1_Witness ==
    /\ CleaningDone
    /\ Len(df_clean) = 1
    /\ \E i \in 1..Len(df.rows) :
          DateMissing(df.rows[i]) /\ ~PriceMissing(df.rows[i])

Ascending ==
    \A i, j \in 1..Len(df_clean) :
        i < j => df_clean[i].date.v <= df_clean[j].date.v

StrictlyAscending ==
    \A i, j \in 1..Len(df_clean) :
        i < j => df_clean[i].date.v < df_clean[j].date.v

\* Rows of one date keep the order they had in the input table.
Stable ==
    \A i, j \in 1..Len(df_clean) :
        (i < j /\ df_clean[i].date.v = df_clean[j].date.v)
            => df_clean[i].src < df_clean[j].src

\* C2 as stated: the cleaned series is in ascending date order and the sort
\* is stable, rows of equal date keeping their input order.
C2_AscendingAndStable == CleaningDone => (Ascending /\ Stable)

\* C2 amended: the cleaned series is in ascending (non-decreasing) date
\* order, rows of equal date next to each other in no guaranteed order.
C2_AscendingByDate == CleaningDone => Ascending

\* The sort had work to do: two kept rows came in descending date order.
C2_Witness ==
    /\ CleaningDone
    /\ \E i, j \in 1..Len(df_clean) :
          /\ i < j
          /\ df_clean[i].src > df_clean[j].src
          /\ df_clean[i].date.v < df_clean[j].date.v

NoMissingValue ==
    \A j \in 1..Len(df_clean) :
        /\ df_clean[j].date.k = "ts"
        /\ df_clean[j].dayahead.k # "null"
        /\ df_clean[j].realtime.k # "null"

\* Two complete rows of the input table carry the same date.
InputRepeatsDate ==
    \E a, b \in 1..Len(df.rows) :
        /\ a < b
        /\ df.rows[a].date = df.rows[b].date
        /\ ~DateMissing(df.rows[a]) /\ ~PriceMissing(df.rows[a])
        /\ ~DateMissing(df.rows[b]) /\ ~PriceMissing(df.rows[b])

\* C3 as stated: the cleaned series has no duplicate dates (they strictly
\* increase) and no missing price.
C3_StrictDatesNoNull ==
    CleaningDone =>
        /\ StrictlyAscending
        /\ \A j \in 1..Len(df_clean) :
              df_clean[j].dayahead.k # "null" /\ df_clean[j].realtime.k # "null"

\* C3 amended: the cleaned series has no missing date or price, and its
\* dates increase strictly exactly when no two complete rows of the input
\* carry the same date: a repeated date is kept, not merged.
C3_NoNullDatesRepeatAsInput ==
    CleaningDone =>
        /\ NoMissingValue
        /\ StrictlyAscending <=> ~InputRepeatsDate

\* Two complete rows of one date both reached the cleaned series.
C3_Witness ==
    /\ CleaningDone
    /\ Len(df_clean) = 2
    /\ df_clean[1].date.v = df_clean[2].date.v

-----------------------------------------------------------------------------
(* Properties of the results *)

Said(msg) == \E i \in 1..Len(out) : out[i] = msg

\* The function has come back to its caller, by return or by exception.
CallOver == pc \in {"returned", "done"}

\* A table of three columns whose date cells are dates or missing and in
\* which no row is complete: no rows at all, every cell missing, or a
\* missing cell in every row.
EmptyOrAllNull(t) ==
    /\ t.ncols = 3
    /\ \A i \in 1..Len(t.rows) :
          /\ Parseable(t.rows[i].date)
          /\ DateMissing(t.rows[i]) \/ PriceMissing(t.rows[i])

SaveFailed == CallOver /\ fig # NoFigure /\ save_path # "None" /\ saved = FALSE

\* C5: when writing the image fails the function does not raise; it prints
\* the failure and returns the figure it composed, the same one it returns
\* when the image is written.
C5_SaveFailureStillReturnsFigure ==
    SaveFailed =>
        /\ exc = "none"
        /\ ~Said("fatal")
        /\ Said("save_error")
        /\ ret = "fig,axes"
        /\ fig = ComposeFigure(df_clean, stats, show_labels)

C5_Witness ==
    /\ pc = "done"
    /\ SaveFailed
    /\ ret = "fig,axes"
    /\ Said("save_error")

IsZero(x) == x.k = "fin" /\ x.num = 0

\* C6: with a day-ahead mean of 0 the premium rate and the day-ahead
\* volatility are the undefined value, with a real-time mean of 0 so is the
\* real-time volatility; each shows as "--" wherever it is displayed, never
\* as nan or inf, and the call still returns its figure.
C6_ZeroMeanShowsPlaceholder ==
    fig # NoFigure =>
        /\ IsZero(stats.dayahead_mean) =>
              /\ stats.premium_rate = NaN
              /\ stats.dayahead_volatility = NaN
              /\ fig.cards[1].subtitle = "--"
              /\ fig.cards[4].subtitle = "--"
              /\ fig.insight_premium = "--"
        /\ IsZero(stats.realtime_mean) =>
              /\ stats.realtime_volatility = NaN
              /\ fig.cards[2].subtitle = "--"
        /\ (IsZero(stats.dayahead_mean) \/ IsZero(stats.realtime_mean)) =>
              /\ exc = "none"
              /\ CallOver => ret = "fig,axes"

\* Prices of both signs average to zero while their spread does not, and the
\* report came back.
C6_Witness ==
    /\ pc = "done"
    /\ ret = "fig,axes"
    /\ IsZero(stats.dayahead_mean)
    /\ ~IsZero(stats.price_diff_mean)
    /\ stats.dayahead_std = Positive

\* The run ended with an error: an exception reached the caller of the
\* function, or the script reported one.
HardFailure == pc = "done" /\ (exc # "none" \/ Said("fatal"))

\* Nothing was generated: no figure, no file, no result.
Aborted == fig = NoFigure /\ saved = FALSE /\ ret = "pending"

BadDate(t) == \E i \in 1..Len(t.rows) : ~Parseable(t.rows[i].date)

TextPrice(row) == row.dayahead.k = "str" \/ row.realtime.k = "str"

\* The input is not of the (date, number, number) shape: the sheet cannot be
\* read as a table, it has not three columns, a date cell is no date, or a
\* price cell is no number.
NotCoercible ==
    \/ fileState = "corrupt"
    \/ df.ncols # 3
    \/ BadDate(df)
    \/ \E i \in 1..Len(df.rows) : TextPrice(df.rows[i])

\* The part of it the code runs into: a text price counts only in a row
\* that has no missing cell, since cleaning drops the others unread.
Rejected ==
    \/ fileState = "corrupt"
    \/ df.ncols # 3
    \/ BadDate(df)
    \/ \E i \in 1..Len(df.rows) :
          /\ TextPrice(df.rows[i])
          /\ ~DateMissing(df.rows[i]) /\ ~PriceMissing(df.rows[i])

C8_MissingFileFallsBackToDemo ==
    entry = "main" =>
        /\ (fileState = "absent" /\ pc \notin {"start", "raised"}) =>
              /\ df = create_demo_data
              /\ branch = "demo"
              /\ save_path = "png"
              /\ Said("warn_missing") /\ Said("use_demo")
              /\ ~Said("loaded") /\ ~Said("done_real") /\ ~Said("fatal")
              /\ exc = "none"
              /\ pc = "done" => (ret = "fig,axes" /\ Said("done_demo"))
        /\ (fileState = "present" /\ pc # "start") =>
              /\ branch = "real"
              /\ df \in Tables
              /\ save_path = "png"
              /\ Said("loaded")
              /\ ~Said("warn_missing") /\ ~Said("use_demo") /\ ~Said("done_demo")

\* The sheet was absent and the demo chart was made and saved.
C8_Witness ==
    /\ entry = "main" /\ fileState = "absent"
    /\ pc = "done"
    /\ df = create_demo_data
    /\ saved
    /\ Said("done_demo")

\* The run is on the output of create_demo_data.
DemoRun == branch = "demo" \/ entry = "preview"

\* |x - c/100| <= 1/100 for a finite float x.
WithinOneHundredth(x, c) ==
    /\ (c - 1) * x.den <= 100 * x.num
    /\ 100 * x.num <= (c + 1) * x.den

SpreadOn(day) ==
    LET j == CHOOSE j \in 1..Len(df_clean) : df_clean[j].date.v = day
    IN  df_clean[j].spread

\* C9 as stated: the demo data cleans to 35 rows with a day-ahead mean
\* within 0.01 of 351.41 and a spread of 550.50 - 306.28 = 244.22 on
\* 2025-06-29.
C9_DemoMean35141 ==
    (DemoRun /\ stats # NoStats) =>
        /\ Len(df_clean) = 35
        /\ WithinOneHundredth(stats.dayahead_mean, 35141)
        /\ SpreadOn(20250629) = 55050 - 30628
        /\ SpreadOn(20250629) = 24422

\* C9 amended: the demo data cleans to 35 rows with a day-ahead mean within
\* 0.01 of 354.66 and a spread of 550.50 - 306.28 = 244.22 on 2025-06-29.
C9_DemoMean35466 ==
    (DemoRun /\ stats # NoStats) =>
        /\ Len(df_clean) = 35
        /\ WithinOneHundredth(stats.dayahead_mean, 35466)
        /\ SpreadOn(20250629) = 55050 - 30628
        /\ SpreadOn(20250629) = 24422

C9_Witness ==
    /\ DemoRun
    /\ stats # NoStats
    /\ Len(df_clean) = 35
    /\ Len(df.rows) = 35

\* idx is the 0-based position of the first row of col holding its maximum.
FirstMaximum(col, idx) ==
    /\ idx \in 0..(Len(col) - 1)
    /\ \A j \in 1..Len(col) : col[j] <= col[idx + 1]
    /\ \A j \in 1..idx : col[j] < col[idx + 1]

FirstMinimum(col, idx) ==
    /\ idx \in 0..(Len(col) - 1)
    /\ \A j \in 1..Len(col) : col[j] >= col[idx + 1]
    /\ \A j \in 1..idx : col[j] > col[idx + 1]

\* C10: each reported extremum index is the position of the first row, in
\* the order of the cleaned series, that holds the column's maximum
\* (minimum); on the demo data the day-ahead maximum is the row dated
\* 2025-07-20, of value 546.51.
C10_ExtremumIsFirstOccurrence ==
    stats # NoStats =>
        /\ FirstMaximum(DayAheadColumn(df_clean), stats.dayahead_max_idx)
        /\ FirstMinimum(DayAheadColumn(df_clean), stats.dayahead_min_idx)
        /\ FirstMaximum(RealTimeColumn(df_clean), stats.realtime_max_idx)
        /\ FirstMinimum(RealTimeColumn(df_clean), stats.realtime_min_idx)
        /\ FirstMaximum(SpreadColumn(df_clean), stats.diff_max_idx)
        /\ FirstMinimum(SpreadColumn(df_clean), stats.diff_min_idx)
        /\ DemoRun =>
              /\ Loc(df_clean, stats.dayahead_max_idx).date.v = 20250720
              /\ Loc(df_clean, stats.dayahead_max_idx).dayahead.v = 54651

\* Two rows tie for the day-ahead maximum, and the first of them is reported.
C10_Witness ==
    /\ stats # NoStats
    /\ Len(df_clean) = 2
    /\ df_clean[1].dayahead.v = df_clean[2].dayahead.v
    /\ df_clean[1].date.v < df_clean[2].date.v
    /\ stats.dayahead_max_idx = 0

-----------------------------------------------------------------------------
(* Properties of the derived column and of the data labels *)

\* Line 99 has run: every row of df_clean has its spread.
SpreadComputed == stats # NoStats

\* C11: in the cleaned, sorted series every row's spread is exactly that
\* row's real-time price minus its day-ahead price, which are the prices of
\* the input row it comes from; no row carries another row's spread.
C11_SpreadIsRealTimeMinusDayAhead ==
    SpreadComputed =>
        /\ Ascending
        /\ \A j \in 1..Len(df_clean) :
              /\ df_clean[j].spread
                    = df_clean[j].realtime.v - df_clean[j].dayahead.v
              /\ df_clean[j].spread
                    = df.rows[df_clean[j].src].realtime.v
                        - df.rows[df_clean[j].src].dayahead.v

\* The sort moved the second input row in front of the first, and the two
\* rows have different spreads.
C11_Witness ==
    /\ SpreadComputed
    /\ Len(df_clean) = 2
    /\ df_clean[1].src = 2
    /\ df_clean[2].src = 1
    /\ df_clean[1].spread # df_clean[2].spread
    /\ df_clean[1].spread # 0

\* The 0-based positions the label policy picks in a series of n rows:
\* every N-th one from 0 on, N = max(1, n // 18), and the last.
PolicyRows(n) ==
    LET N == IF n \div LabelDivisor > 1 THEN n \div LabelDivisor ELSE 1
    IN  {i \in 0..(n - 1) : i % N = 0} \cup {n - 1}

LabelsAt(i, s) == {t \in fig.texts : t.row = i /\ t.series = s}

\* C12: with show_labels true the labelled points of a cleaned series of n
\* rows are exactly those at positions 0, N, 2N, ... with
\* N = max(1, n // 18), plus the last one, each with one label for the
\* day-ahead and one for the real-time series; with show_labels false there
\* is no data label.
C12_LabelsEveryNthAndLast ==
    fig # NoFigure =>
        IF show_labels
        THEN /\ {t.row : t \in fig.texts} = PolicyRows(Len(df_clean))
             /\ \A i \in PolicyRows(Len(df_clean)) :
                   \A s \in {"dayahead", "realtime"} :
                       Cardinality(LabelsAt(i, s)) = 1
             /\ Cardinality(fig.texts) = 2 * Cardinality(PolicyRows(Len(df_clean)))
        ELSE fig.texts = {}

\* A series of 36 rows is labelled at every second row and at its last row,
\* position 35, which the interval alone would skip.
C12_Witness ==
    /\ fig # NoFigure
    /\ show_labels
    /\ Len(df_clean) = 2 * LabelDivisor
    /\ LabelsAt(0, "dayahead") # {}
    /\ LabelsAt(1, "dayahead") = {}
    /\ LabelsAt(2, "realtime") # {}
    /\ LabelsAt((2 * LabelDivisor) - 1, "realtime") # {}

====
